---- MODULE Spec2Model ----
(***************************************************************************)
(* The argument parser of webtorrent-cli: minimistPrettyParse (bin/cmd.js) *)
(* with its two inner functions buildOptions and parseTemplates, and the   *)
(* minimist call it wraps, followed by what the process does with the      *)
(* outcome: errorAndExit when the parse has thrown, main when it returned,  *)
(* and then the command main has called: its handlers of the events of the *)
(* torrent, the server, the player, the signals and the client.            *)
(* Spec is the process up to the return of main, over many argument lists  *)
(* and schemas; SpecRun is the whole run over the argument lists RunArgs.   *)
(*                                                                          *)
(* JavaScript values are records [k, s, a]: k is the typeof tag ("string", *)
(* "number", "boolean", "undefined") or "array", s the text of a scalar,   *)
(* a the elements of an array.  An object is a function from its keys;     *)
(* an object whose key order matters (Object.keys, Object.entries) is a    *)
(* sequence of pairs or records.  Strings are atomic in TLC, so every      *)
(* string function of the code (includes, replace, match, split) is a      *)
(* table over the strings the model uses.                                  *)
(***************************************************************************)
EXTENDS Integers, Sequences, FiniteSets, TLC

VARIABLES
  argv,                  \* process.argv.slice(2), the raw argument list
  options,               \* the options object given to minimistPrettyParse
  commands,              \* the commands object given to minimistPrettyParse
  pc,                    \* position inside minimistPrettyParse
  result,                \* const result (the object minimist returned)
  anyTypeOptions,        \* const anyTypeOptions
  local,                 \* the locals of parseTemplates
  thrown,                \* the Error thrown out of minimistPrettyParse, if any
  expectedError,         \* let expectedError
  exitCode,              \* <<>> while the process runs, <<code>> after process.exit(code)
  shown,                 \* what runHelp or runVersion printed, "" for neither
  callback,              \* the key of commands whose cb main has called, "" for none
  env,                   \* what main finds around it: process.env.DEBUG, the scripts named
  lets,                  \* let client, serving, drawInterval, gracefullyExiting, torrentCount
  torrent,               \* the torrent the handler added to the client, and its listeners
  server,                \* the HTTP server of the torrent, and its listeners
  webtorrent,            \* the WebTorrent instance, whichever variable holds it
  effects                \* what the process did to the world around it

\* the variables of the process around the parse
procVars == <<expectedError, exitCode, shown, callback>>

\* the variables of the command that runs
runVars == <<env, lets, torrent, server, webtorrent, effects>>

vars ==
  <<argv, options, commands, pc, result, anyTypeOptions, local, thrown, procVars, runVars>>

---------------------------------------------------------------------------
(* Bounds *)

MaxArgs == 4

---------------------------------------------------------------------------
(* JavaScript values *)

Str(s) == [k |-> "string", s |-> s, a |-> <<>>]
Num(s) == [k |-> "number", s |-> s, a |-> <<>>]
Bool(b) == [k |-> "boolean", s |-> IF b THEN "true" ELSE "false", a |-> <<>>]
Undefined == [k |-> "undefined", s |-> "", a |-> <<>>]
Arr(elems) == [k |-> "array", s |-> "", a |-> elems]

JsTrue == Bool(TRUE)
JsFalse == Bool(FALSE)

\* ToBoolean: undefined, false, '' and 0 are falsy; arrays are objects, truthy.
Truthy(v) ==
  CASE v.k = "undefined" -> FALSE
    [] v.k = "boolean" -> v.s = "true"
    [] v.k = "string" -> v.s /= ""
    [] v.k = "number" -> v.s /= "0"
    [] OTHER -> TRUE

\* typeof v
TypeOf(v) == IF v.k = "array" THEN "object" ELSE v.k

\* TLC evaluates a definition when it is first used; a loop tests Evaluated(x)
\* on each intermediate value x, so that it is computed before the next iteration
Evaluated(x) == x = x

\* obj[key] and obj[key] = v on an object held as a function
Get(obj, key) == IF key \in DOMAIN obj THEN obj[key] ELSE Undefined
Put(obj, key, v) == [x \in DOMAIN obj \cup {key} |-> IF x = key THEN v ELSE obj[x]]

\* an object whose key order matters: a sequence of <<key, value>> pairs
PairHas(pairs, key) == \E n \in 1..Len(pairs) : pairs[n][1] = key
PairGet(pairs, key) ==
  IF PairHas(pairs, key)
  THEN pairs[CHOOSE n \in 1..Len(pairs) : pairs[n][1] = key][2]
  ELSE Undefined
PairPut(pairs, key, v) ==
  IF PairHas(pairs, key)
  THEN [n \in 1..Len(pairs) |-> IF pairs[n][1] = key THEN <<key, v>> ELSE pairs[n]]
  ELSE Append(pairs, <<key, v>>)

---------------------------------------------------------------------------
(* String tables *)

\* optionKey.includes('no-')
IncludesNo(key) == key \in {"no-quit", "piano-mode"}

\* a replace that leaves the key as it is
ReplaceNoKeeps(key) == key

\* optionKey.replace('no-', ''): the first occurrence is removed
ReplaceNo(key) ==
  CASE key = "no-quit" -> "quit" [] key = "piano-mode" -> "piamode" [] OTHER -> key

\* key.match(/^[a-zA-Z]+((-|_){1}[a-zA-Z]+)+$/g)
IsHyphenated(key) ==
  key \in {"player-args", "torrent-port", "dht-port", "not-on-top", "keep-seeding",
           "no-quit", "on-done", "on-exit", "torrent-ids", "torrent-id", "piano-mode"}

\* key.replace(/[_-]([a-z])/g, (_, w) => w.toUpperCase())
CamelCase(key) ==
  CASE key = "player-args" -> "playerArgs"
    [] key = "torrent-port" -> "torrentPort"
    [] key = "dht-port" -> "dhtPort"
    [] key = "not-on-top" -> "notOnTop"
    [] key = "keep-seeding" -> "keepSeeding"
    [] key = "no-quit" -> "noQuit"
    [] key = "on-done" -> "onDone"
    [] key = "on-exit" -> "onExit"
    [] key = "torrent-ids" -> "torrentIds"
    [] key = "torrent-id" -> "torrentId"
    [] key = "piano-mode" -> "pianoMode"
    [] OTHER -> key

---------------------------------------------------------------------------
(* The schema: const options, const commands *)

Opt(key, alias, type, default) ==
  [key |-> key, alias |-> alias, type |-> type, default |-> default]

\* options.streaming
OptionsStreaming ==
  << Opt("airplay", "", "", Undefined),
     Opt("chromecast", "", "any", Undefined),
     Opt("dlna", "", "", Undefined),
     Opt("mplayer", "", "", Undefined),
     Opt("mpv", "", "", Undefined),
     Opt("omx", "", "any", Undefined),
     Opt("vlc", "", "", Undefined),
     Opt("iina", "", "", Undefined),
     Opt("xbmc", "", "", Undefined),
     Opt("stdout", "", "", Undefined) >>

\* options.simple
OptionsSimple ==
  << Opt("help", "h", "", Undefined),
     Opt("version", "v", "", Undefined),
     Opt("out", "o", "string", Undefined),
     Opt("select", "s", "string", Undefined),
     Opt("subtitles", "t", "string", Undefined) >>

\* options.advanced
OptionsAdvanced ==
  << Opt("port", "p", "", Num("8000")),
     Opt("blocklist", "b", "string", Undefined),
     Opt("announce", "a", "string", Undefined),
     Opt("quiet", "q", "", Undefined),
     Opt("pip", "", "", Undefined),
     Opt("verbose", "", "", Undefined),
     Opt("player-args", "", "string", Undefined),
     Opt("torrent-port", "", "number", Undefined),
     Opt("dht-port", "", "number", Undefined),
     Opt("not-on-top", "", "", Undefined),
     Opt("keep-seeding", "", "", Undefined),
     Opt("no-quit", "", "", Undefined),
     Opt("on-done", "", "string", Undefined),
     Opt("on-exit", "", "string", Undefined) >>

\* Object.assign({}, options.streaming, options.simple, options.advanced)
AllOptions == OptionsStreaming \o OptionsSimple \o OptionsAdvanced

Cmd(name, template) == [name |-> name, template |-> template]

\* const commands; a command without template has template ""
Commands ==
  << Cmd("*", "[torrent-ids...]"),
     Cmd("download", "<torrent-ids...>"),
     Cmd("downloadmeta", "<torrent-ids...>"),
     Cmd("seed", "<inputs...>"),
     Cmd("create", "<input>"),
     Cmd("info", "<torrent-id>"),
     Cmd("version", ""),
     Cmd("help", "") >>

---------------------------------------------------------------------------
(* buildOptions: the minimist configuration derived from the options *)

EmptyMinimistOpts ==
  [alias |-> <<>>, boolean |-> <<>>, string |-> <<>>, default |-> <<>>, any |-> <<>>]

\* an alias that is not registered
DeclaredAliasDropped(alias, o) == alias

\* if (optionValue.alias) minimistOpts.alias[optionValue.alias] = optionKey
DeclaredAlias(alias, o) == IF o.alias /= "" THEN PairPut(alias, o.alias, o.key) ELSE alias

\* if (optionValue.default) minimistOpts.default[optionKey] = optionValue.default
DeclaredDefault(default, o) ==
  IF Truthy(o.default) THEN PairPut(default, o.key, o.default) ELSE default

\* if (optionKey.includes('no-')) minimistOpts.default[optionKey.replace('no-', '')] = true
NegatedDefault(default, o) ==
  IF IncludesNo(o.key) THEN PairPut(default, ReplaceNo(o.key), JsTrue) ELSE default

\* a camelCase spelling that is not registered
CamelCaseAliasDropped(alias, o) == alias

\* if (optionKey.match(hyphenated)) minimistOpts.alias[camelCase(optionKey)] = optionKey
CamelCaseAlias(alias, o) ==
  IF IsHyphenated(o.key) THEN PairPut(alias, CamelCase(o.key), o.key) ELSE alias

\* the type the option is registered under: "boolean", or for the string
\* array the declared type or typeof default
OptionType(o) ==
  IF o.type /= "" \/ Truthy(o.default)
  THEN IF Truthy(o.default) THEN TypeOf(o.default) ELSE o.type
  ELSE "boolean"

\* one iteration of the for..of loop over Object.entries(options);
\* field any is the anyTypeOptions array of the enclosing function
BuildOption(acc, o) ==
  [alias |-> CamelCaseAlias(DeclaredAlias(acc.alias, o), o),
   default |-> NegatedDefault(DeclaredDefault(acc.default, o), o),
   boolean |-> IF OptionType(o) = "boolean" THEN Append(acc.boolean, o.key) ELSE acc.boolean,
   string |-> IF OptionType(o) = "boolean" THEN acc.string ELSE Append(acc.string, o.key),
   any |-> IF OptionType(o) = "any" THEN Append(acc.any, o.key) ELSE acc.any]

RECURSIVE BuildOptionsFrom(_, _, _)
BuildOptionsFrom(opts, n, acc) ==
  IF n > Len(opts) THEN acc
  ELSE LET next == BuildOption(acc, opts[n])
       IN IF Evaluated(next) THEN BuildOptionsFrom(opts, n + 1, next) ELSE acc

buildOptions(opts) == BuildOptionsFrom(opts, 1, EmptyMinimistOpts)

---------------------------------------------------------------------------
(* The lexical shape of an argument, as the regular expressions of         *)
(* minimist's loop see it, tried in this order:                            *)
(*   "eq"    /^--.+=/      --key=value                                     *)
(*   "no"    /^--no-.+/    --no-key                                        *)
(*   "long"  /^--.+/       --key                                           *)
(*   "short" /^-[^-]+/     -k (the model has one letter after the dash)    *)
(*   "plain" anything else, "-" and "" included                            *)

Tok(form, key, val) == [form |-> form, key |-> key, val |-> val]

LexTable ==
  ( "--help" :> Tok("long", "help", "") @@ "-h" :> Tok("short", "h", "")
 @@ "--version" :> Tok("long", "version", "") @@ "-v" :> Tok("short", "v", "")
 @@ "--out" :> Tok("long", "out", "") @@ "-o" :> Tok("short", "o", "")
 @@ "--select" :> Tok("long", "select", "") @@ "-s" :> Tok("short", "s", "")
 @@ "--subtitles" :> Tok("long", "subtitles", "") @@ "-t" :> Tok("short", "t", "")
 @@ "--port" :> Tok("long", "port", "") @@ "-p" :> Tok("short", "p", "")
 @@ "--blocklist" :> Tok("long", "blocklist", "") @@ "-b" :> Tok("short", "b", "")
 @@ "--announce" :> Tok("long", "announce", "") @@ "-a" :> Tok("short", "a", "")
 @@ "--quiet" :> Tok("long", "quiet", "") @@ "-q" :> Tok("short", "q", "")
 @@ "--chromecast" :> Tok("long", "chromecast", "")
 @@ "--chromecast=tv" :> Tok("eq", "chromecast", "tv")
 @@ "--omx" :> Tok("long", "omx", "")
 @@ "--omx=" :> Tok("eq", "omx", "")
 @@ "--quit" :> Tok("long", "quit", "")
 @@ "--no-quit" :> Tok("no", "quit", "")
 @@ "--noQuit" :> Tok("long", "noQuit", "")
 @@ "--dht-port" :> Tok("long", "dht-port", "")
 @@ "--dhtPort" :> Tok("long", "dhtPort", "")
 @@ "--on-done" :> Tok("long", "on-done", "")
 @@ "--stdout" :> Tok("long", "stdout", "")
 @@ "--on-exit" :> Tok("long", "on-exit", "")
 @@ "--keep-seeding" :> Tok("long", "keep-seeding", "")
 @@ "--vlc" :> Tok("long", "vlc", "")
 @@ "--mpv" :> Tok("long", "mpv", "")
 @@ "--iina" :> Tok("long", "iina", "")
 @@ "--alpha" :> Tok("long", "alpha", "") @@ "-x" :> Tok("short", "x", "")
 @@ "--level" :> Tok("long", "level", "")
 @@ "--label" :> Tok("long", "label", "")
 @@ "--dry" :> Tok("long", "dry", "")
 @@ "--wet" :> Tok("long", "wet", "")
 @@ "--piano-mode" :> Tok("long", "piano-mode", "") )

Lex(t) == IF t \in DOMAIN LexTable THEN LexTable[t] ELSE Tok("plain", "", "")

\* /^-/.test(t)
StartsWithDash(t) == Lex(t).form /= "plain" \/ t \in {"-", "--"}

\* /^(-|--)[^-]/.test(t)
LooksLikeFlag(t) == Lex(t).form /= "plain"

\* /^(true|false)$/.test(t)
IsTrueFalse(t) == t \in {"true", "false"}

\* isNumber(x) of minimist for a string x, and String(Number(x))
IsNumberStr(t) == t \in {"0"}
NumberText(t) == CASE t = "0" -> "0" [] OTHER -> t

---------------------------------------------------------------------------
(* minimist(args, opts), the library function the parser wraps *)

\* the aliases table: each key of opts.alias and its target name each other
RECURSIVE MinimistAliases(_, _, _)
MinimistAliases(pairs, n, acc) ==
  IF n > Len(pairs) THEN acc
  ELSE LET key == pairs[n][1]
           target == pairs[n][2]
           next == Put(Put(acc, key, <<target>>), target, <<key>>)
       IN IF Evaluated(next) THEN MinimistAliases(pairs, n + 1, next) ELSE acc

SeqToSet(q) == {q[n] : n \in 1..Len(q)}

\* the flags of a minimist call: flags.bools, flags.strings, aliases, defaults
MinimistFlags(opts) ==
  LET aliases == MinimistAliases(opts.alias, 1, <<>>)
      strings == SeqToSet(opts.string)
  IN [aliases |-> aliases,
      bools |-> SeqToSet(opts.boolean),
      strings |-> strings \cup {aliases[key][1] : key \in strings \cap DOMAIN aliases},
      defaults |-> opts.default]

AliasesOf(flags, key) == IF key \in DOMAIN flags.aliases THEN flags.aliases[key] ELSE <<>>

\* isNumber(x)
IsNumber(v) == v.k = "number" \/ (v.k = "string" /\ IsNumberStr(v.s))

\* setKey(obj, [key], value)
SetKey(flags, obj, key, value) ==
  LET old == Get(obj, key)
  IN IF old.k = "undefined" \/ key \in flags.bools \/ old.k = "boolean"
     THEN Put(obj, key, value)
     ELSE IF old.k = "array"
          THEN Put(obj, key, Arr(Append(old.a, value)))
          ELSE Put(obj, key, Arr(<<old, value>>))

RECURSIVE SetKeys(_, _, _, _, _)
SetKeys(flags, obj, keys, n, value) ==
  IF n > Len(keys) THEN obj
  ELSE LET next == SetKey(flags, obj, keys[n], value)
       IN IF Evaluated(next) THEN SetKeys(flags, next, keys, n + 1, value) ELSE obj

\* setArg(key, val)
SetArg(flags, obj, key, val) ==
  LET value == IF key \notin flags.strings /\ IsNumber(val) THEN Num(NumberText(val.s))
               ELSE val
  IN SetKeys(flags, SetKey(flags, obj, key, value), AliasesOf(flags, key), 1, value)

\* aliasIsBoolean(key)
AliasIsBoolean(flags, key) ==
  \E n \in 1..Len(AliasesOf(flags, key)) : AliasesOf(flags, key)[n] \in flags.bools

\* key is neither boolean nor an alias of a boolean
TakesValue(flags, key) ==
  key \notin flags.bools /\ (key \in DOMAIN flags.aliases => ~AliasIsBoolean(flags, key))

\* argv._.push(v)
PushPositional(obj, v) == Put(obj, "_", Arr(Append(obj["_"].a, v)))

\* one iteration of the loop over args: <<obj after it, index of the next arg>>
MinimistArg(flags, args, i, obj) ==
  LET arg == args[i]
      lex == Lex(arg)
      hasNext == i < Len(args)
      next == IF hasNext THEN args[i + 1] ELSE ""
      bare == IF lex.key \in flags.strings THEN Str("") ELSE JsTrue
  IN CASE lex.form = "eq" ->
            << SetArg(flags, obj, lex.key,
                      IF lex.key \in flags.bools THEN Bool(lex.val /= "false")
                      ELSE Str(lex.val)),
               i + 1 >>
       [] lex.form = "no" ->
            << SetArg(flags, obj, lex.key, JsFalse), i + 1 >>
       [] lex.form = "long" ->
            IF hasNext /\ ~StartsWithDash(next) /\ TakesValue(flags, lex.key)
            THEN << SetArg(flags, obj, lex.key, Str(next)), i + 2 >>
            ELSE IF hasNext /\ IsTrueFalse(next)
                 THEN << SetArg(flags, obj, lex.key, Bool(next = "true")), i + 2 >>
                 ELSE << SetArg(flags, obj, lex.key, bare), i + 1 >>
       [] lex.form = "short" ->
            IF hasNext /\ next /= "" /\ ~LooksLikeFlag(next) /\ TakesValue(flags, lex.key)
            THEN << SetArg(flags, obj, lex.key, Str(next)), i + 2 >>
            ELSE IF hasNext /\ IsTrueFalse(next)
                 THEN << SetArg(flags, obj, lex.key, Bool(next = "true")), i + 2 >>
                 ELSE << SetArg(flags, obj, lex.key, bare), i + 1 >>
       [] OTHER ->
            << PushPositional(obj, IF IsNumberStr(arg) THEN Num(NumberText(arg))
                                   ELSE Str(arg)),
               i + 1 >>

RECURSIVE MinimistLoop(_, _, _, _)
MinimistLoop(flags, args, i, obj) ==
  IF i > Len(args) THEN obj
  ELSE LET step == MinimistArg(flags, args, i, obj)
       IN IF Evaluated(step) THEN MinimistLoop(flags, args, step[2], step[1]) ELSE obj

\* Object.keys(flags.bools).forEach(key => setArg(key, defaults[key] ?? false))
RECURSIVE MinimistBools(_, _, _, _)
MinimistBools(flags, keys, n, obj) ==
  IF n > Len(keys) THEN obj
  ELSE LET d == PairGet(flags.defaults, keys[n])
           next == SetArg(flags, obj, keys[n], IF d.k = "undefined" THEN JsFalse ELSE d)
       IN IF Evaluated(next) THEN MinimistBools(flags, keys, n + 1, next) ELSE obj

\* Object.keys(defaults).forEach: a key the arguments did not set takes its default
RECURSIVE MinimistDefaults(_, _, _)
MinimistDefaults(flags, n, obj) ==
  IF n > Len(flags.defaults) THEN obj
  ELSE LET key == flags.defaults[n][1]
           d == flags.defaults[n][2]
           next == IF key \in DOMAIN obj THEN obj
                   ELSE SetKeys(flags, SetKey(flags, obj, key, d), AliasesOf(flags, key), 1, d)
       IN IF Evaluated(next) THEN MinimistDefaults(flags, n + 1, next) ELSE obj

\* args.indexOf('--'): 0 when there is none
RECURSIVE IndexOfDashDash(_, _)
IndexOfDashDash(args, n) ==
  IF n > Len(args) THEN 0
  ELSE IF args[n] = "--" THEN n ELSE IndexOfDashDash(args, n + 1)

RECURSIVE PushAll(_, _, _)
PushAll(obj, toks, n) ==
  IF n > Len(toks) THEN obj
  ELSE LET next == PushPositional(obj, Str(toks[n]))
       IN IF Evaluated(next) THEN PushAll(next, toks, n + 1) ELSE obj

minimist(args, opts) ==
  LET flags == MinimistFlags(opts)
      cut == IndexOfDashDash(args, 1)
      notFlags == IF cut = 0 THEN <<>> ELSE SubSeq(args, cut + 1, Len(args))
      flagArgs == IF cut = 0 THEN args ELSE SubSeq(args, 1, cut - 1)
      obj0 == MinimistBools(flags, opts.boolean, 1, ("_" :> Arr(<<>>)))
      obj1 == MinimistLoop(flags, flagArgs, 1, obj0)
      obj2 == MinimistDefaults(flags, 1, obj1)
  IN PushAll(obj2, notFlags, 1)

---------------------------------------------------------------------------
(* Template strings *)

\* template.includes(' ')
TemplateIncludesSpace(t) == t \in {"<x> <y>", "[x] <y>"}

\* template.split(' ')
TemplateSplit(t) ==
  CASE t = "<x> <y>" -> <<"<x>", "<y>">>
    [] t = "[x] <y>" -> <<"[x]", "<y>">>
    [] OTHER -> <<t>>

\* a token that is read as optional whatever its brackets
PieceAlwaysOptional(matches, isArray, required, name) ==
  [matches |-> matches, isArray |-> isArray, required |-> FALSE, name |-> name]

Piece(matches, isArray, required, name) ==
  [matches |-> matches, isArray |-> isArray, required |-> required, name |-> name]

(* One token of a template:                                                *)
(*   matches  .match(/^(<(?=.+>)|\[(?=.+\]))([\w+-]+(\.\.\.)?)[>\]]$/g)    *)
(*   isArray  !!argument[0].match(/\.\.\./g)                               *)
(*   required !!argument[0].match(/^<.+>$/g)                               *)
(*   name     argument[0].match(/[\w-]+/g)[0]                              *)
PieceTable ==
  ( "[torrent-ids...]" :> Piece(TRUE, TRUE, FALSE, "torrent-ids")
 @@ "<torrent-ids...>" :> Piece(TRUE, TRUE, TRUE, "torrent-ids")
 @@ "<inputs...>" :> Piece(TRUE, TRUE, TRUE, "inputs")
 @@ "<input>" :> Piece(TRUE, FALSE, TRUE, "input")
 @@ "<torrent-id>" :> Piece(TRUE, FALSE, TRUE, "torrent-id")
 @@ "[files...]" :> Piece(TRUE, TRUE, FALSE, "files")
 @@ "<x>" :> Piece(TRUE, FALSE, TRUE, "x")
 @@ "[x]" :> Piece(TRUE, FALSE, FALSE, "x")
 @@ "<y>" :> Piece(TRUE, FALSE, TRUE, "y") )

PieceOf(p) == IF p \in DOMAIN PieceTable THEN PieceTable[p] ELSE Piece(FALSE, FALSE, FALSE, "")

---------------------------------------------------------------------------
(* Errors *)

NoError == [name |-> "", text |-> "", arg |-> "", command |-> ""]

\* new Error(`...`): text is the fixed part of the message, arg and command
\* the names interpolated into it
Error(text, arg, command) == [name |-> "Error", text |-> text, arg |-> arg, command |-> command]

\* reading a property of undefined
TypeError(property) ==
  [name |-> "TypeError", text |-> "Cannot read property of undefined", arg |-> property,
   command |-> ""]

---------------------------------------------------------------------------
(* minimistPrettyParse: post-processing and parseTemplates *)

\* a post-processing without the '' case
AnyTypeValueKeepsEmpty(v) == IF v.k = "undefined" THEN JsFalse ELSE v

\* a post-processing that maps undefined to '' instead of false
AnyTypeValueUndefinedEmpty(v) ==
  IF v.k = "undefined" THEN Str("")
  ELSE IF v.k = "string" /\ v.s = "" THEN JsTrue
  ELSE v

\* result[key] = (result[key] === undefined ? false : result[key] === '' ? true : result[key])
AnyTypeValue(v) ==
  IF v.k = "undefined" THEN JsFalse
  ELSE IF v.k = "string" /\ v.s = "" THEN JsTrue
  ELSE v

\* anyTypeOptions.forEach(...)
RECURSIVE PostProcess(_, _, _)
PostProcess(res, any, n) ==
  IF n > Len(any) THEN res
  ELSE LET next == Put(res, any[n], AnyTypeValue(Get(res, any[n])))
       IN IF Evaluated(next) THEN PostProcess(next, any, n + 1) ELSE res

\* result._[j], j counted from 0
Positional(res, j) == IF j + 1 <= Len(res["_"].a) THEN res["_"].a[j + 1] ELSE Undefined

\* a slice that starts one element late
PositionalsFromDropsFirst(res, j) == SubSeq(res["_"].a, j + 2, Len(res["_"].a))

\* result._.slice(j)
PositionalsFrom(res, j) == SubSeq(res["_"].a, j + 1, Len(res["_"].a))

\* a test that takes no token for a key of commands
IsCommandKeyNever(cmds, v) == FALSE

\* Object.keys(commands).includes(v)
IsCommandKey(cmds, v) == v.k = "string" /\ \E n \in 1..Len(cmds) : cmds[n].name = v.s

HasCommand(cmds, name) == \E n \in 1..Len(cmds) : cmds[n].name = name
CommandNamed(cmds, name) == cmds[CHOOSE n \in 1..Len(cmds) : cmds[n].name = name]

\* a preset that does not skip the command name
PresetZero(isDefault) == 0

\* const preset = isDefault ? 0 : 1
Preset(isDefault) == IF isDefault THEN 0 ELSE 1

NoLocal ==
  [isDefault |-> FALSE, command |-> "", template |-> <<>>, preset |-> 0, index |-> 0,
   previousIsOptionalArg |-> FALSE]

\* parseTemplates up to the for loop: the command, its template and preset,
\* or the error thrown before any argument is bound.
\* next is "loop" (template to match), "return" (nothing to match) or "thrown".
SelectCommand(res, cmds) ==
  LET first == Positional(res, 0)
      isDefault == ~IsCommandKey(cmds, first)
      command == IF isDefault THEN "*" ELSE first.s
      base == [NoLocal EXCEPT !.isDefault = isDefault, !.command = command]
      count == Len(res["_"].a)
  IN IF ~HasCommand(cmds, command)
     THEN [next |-> "thrown", local |-> base, thrown |-> TypeError("template")]
     ELSE LET template == CommandNamed(cmds, command).template
          IN IF template /= ""
             THEN IF TemplateIncludesSpace(template)
                  \* commands[commands] is undefined
                  THEN [next |-> "thrown", local |-> base, thrown |-> TypeError("template")]
                  ELSE [next |-> "loop",
                        local |-> [base EXCEPT !.template = <<template>>,
                                               !.preset = Preset(isDefault)],
                        thrown |-> NoError]
             ELSE IF (count > 1 /\ ~isDefault) \/ (count > 0 /\ isDefault)
                  THEN [next |-> "thrown", local |-> base,
                        thrown |-> Error("Was not expecting arguments", "", "")]
                  ELSE [next |-> "return", local |-> base, thrown |-> NoError]

\* one iteration of the for loop over the template
BindArgument(res, loc) ==
  LET text == loc.template[loc.index + 1]
      argument == PieceOf(text)
      last == loc.index = Len(loc.template) - 1
      at == loc.index + loc.preset
      name == argument.name
      fail(e) == [result |-> res, local |-> loc, thrown |-> e]
      done(r) ==
        LET mirrored == IF IsHyphenated(name)
                        THEN Put(r, CamelCase(name), Get(r, name))
                        ELSE r
        IN [result |-> mirrored,
            local |-> [loc EXCEPT !.index = loc.index + 1,
                                  !.previousIsOptionalArg =
                                     IF ~argument.required THEN TRUE
                                     ELSE loc.previousIsOptionalArg],
            thrown |-> NoError]
  IN IF ~argument.matches THEN fail(Error("Invalid argument", text, ""))
     ELSE IF (argument.isArray /\ ~last) \/ (loc.previousIsOptionalArg /\ argument.required)
     THEN fail(Error("Invalid argument template", "", loc.command))
     ELSE IF argument.isArray
     THEN IF Len(PositionalsFrom(res, at)) > 0
          THEN done(Put(res, name, Arr(PositionalsFrom(res, at))))
          ELSE IF argument.required
               THEN fail(Error("is required", name, loc.command))
               ELSE done(res)
     ELSE IF last /\ at < Len(res["_"].a) - 1
          THEN fail(Error("Too many arguments", "", loc.command))
          ELSE IF Truthy(Positional(res, at))
               THEN done(Put(res, name, Positional(res, at)))
               ELSE IF argument.required
                    THEN fail(Error("argument is required", name, loc.command))
                    ELSE done(res)

\* the for loop of parseTemplates from the state loc on: what the call ends with
RECURSIVE BindAll(_, _)
BindAll(res, loc) ==
  IF loc.index >= Len(loc.template) THEN [result |-> res, thrown |-> NoError]
  ELSE LET step == BindArgument(res, loc)
       IN IF step.thrown /= NoError THEN [result |-> res, thrown |-> step.thrown]
          ELSE BindAll(step.result, step.local)

\* parseTemplates()
parseTemplates(res, cmds) ==
  LET sel == SelectCommand(res, cmds)
  IN IF sel.next = "loop" THEN BindAll(res, sel.local)
     ELSE [result |-> res, thrown |-> sel.thrown]

\* minimistPrettyParse(argv, options, commands) as one function: the object
\* returned (result) or the error thrown
minimistPrettyParse(args, opts, cmds) ==
  LET built == buildOptions(opts)
      parsed == minimist(args, built)
  IN parseTemplates(PostProcess(parsed, built.any, 1), cmds)

---------------------------------------------------------------------------
(* The inputs of the model: a schema and the arguments drawn for it *)

\* a schema with one command of two required tokens
ArityCommands == << Cmd("*", ""), Cmd("cmd", "<x> <y>") >>

\* a schema with one command of an optional variadic token
VariadicCommands == << Cmd("*", ""), Cmd("cmd", "[files...]") >>

\* options declared with falsy defaults (0, '', false) and a truthy one
DefaultsOptions ==
  << Opt("level", "", "", Num("0")),
     Opt("label", "", "string", Str("")),
     Opt("dry", "", "", JsFalse),
     Opt("port", "p", "", Num("8000")) >>

\* options declared a string with a default that is a boolean
TypedDefaultOptions ==
  << Opt("dry", "", "string", JsFalse),
     Opt("wet", "", "string", JsTrue) >>

\* an option whose key holds no- after its first letters
InnerNoOptions == << Opt("piano-mode", "", "", Undefined) >>

\* two options that declare the same alias
CollidingOptions ==
  << Opt("alpha", "x", "", Undefined),
     Opt("beta", "x", "", Undefined) >>

\* a schema with a required token after an optional one
MisorderedCommands == << Cmd("*", ""), Cmd("cmd", "[x] <y>") >>

Case(opts, cmds, tokens) == [options |-> opts, commands |-> cmds, tokens |-> tokens]

\* the options that declare an alias, as <<--key, -alias>>
AliasedFlags ==
  { <<"--help", "-h">>, <<"--version", "-v">>, <<"--out", "-o">>, <<"--select", "-s">>,
    <<"--subtitles", "-t">>, <<"--port", "-p">>, <<"--blocklist", "-b">>,
    <<"--announce", "-a">>, <<"--quiet", "-q">> }

Cases ==
  { Case(AllOptions, Commands, {"download", "downloadmeta", "seed", "fileA", "fileB", "-q"}),
    Case(AllOptions, Commands, {"create", "info", "fileA", "0", ""}),
    Case(AllOptions, Commands, {"magnet:x", "seed", "*", "--out", "/tmp"}),
    Case(AllOptions, Commands, {"--no-quit", "--quit", "--noQuit", "fileA", "--"}),
    Case(AllOptions, Commands, {"--chromecast", "--chromecast=tv", "--omx", "--omx=", "tv"}),
    Case(AllOptions, Commands, {"--dht-port", "--dhtPort", "info", "fileA", "0"}),
    Case(AllOptions, Commands, {"--on-done", "script", "fileA"}),
    Case(AllOptions, Commands, {"help", "version", "fileA", "--stdout"}),
    Case(<<>>, ArityCommands, {"cmd", "a", "b", "c"}),
    Case(<<>>, VariadicCommands, {"cmd", "a", "b", "c"}),
    Case(<<>>, MisorderedCommands, {"cmd", "a", "b", "*"}),
    Case(CollidingOptions, VariadicCommands, {"cmd", "-x", "--alpha"}),
    Case(DefaultsOptions, VariadicCommands, {"cmd", "a", "--level", "--label"}),
    Case(TypedDefaultOptions, VariadicCommands, {"cmd", "a", "--dry", "--wet"}),
    Case(InnerNoOptions, VariadicCommands, {"cmd", "a", "--piano-mode"}) }
  \cup { Case(AllOptions, Commands, {f[1], f[2], "", "true"}) : f \in AliasedFlags }

ArgLists(tokens) == UNION { [1..n -> tokens] : n \in 0..MaxArgs }

---------------------------------------------------------------------------
(* main and errorAndExit: what the process does with the outcome of the    *)
(* parse.  playerName is a function of argv when main computes it, and     *)
(* argv keeps its streaming keys afterwards: PlayerName(argv) stands for   *)
(* the variable.  playerArgs holds the command lines of the players.       *)

\* an exit that does not mark the error as expected
errorAndExitUnmarked == [expectedError |-> FALSE, exitCode |-> <<1>>]

\* errorAndExit(err): expectedError = true; process.exit(1)
errorAndExit == [expectedError |-> TRUE, exitCode |-> <<1>>]

\* an enableQuiet that leaves argv as it is
enableQuietNothing(res) == res

\* enableQuiet(): argv.quiet = argv.q = true
enableQuiet(res) == Put(Put(res, "q", JsTrue), "quiet", JsTrue)

\* Object.keys(options.streaming)
StreamingNames == {OptionsStreaming[n].key : n \in 1..Len(OptionsStreaming)}

\* playerName: the streaming option among the keys of argv when there is
\* exactly one, "" for null
PlayerName(res) ==
  LET selectedPlayers == DOMAIN res \cap StreamingNames
  IN IF Cardinality(selectedPlayers) = 1 THEN CHOOSE k \in selectedPlayers : TRUE ELSE ""

\* fs.realpathSync(p), the working directory being /cwd
RealPath(p) == CASE p = "script" -> "/cwd/script" [] OTHER -> p

\* what main ends with
Outcome(at, res, expected, code, printed, cb) ==
  [pc |-> at, result |-> res, expectedError |-> expected, exitCode |-> code,
   shown |-> printed, callback |-> cb]

\* what checkPermission finds of the script argv[key] names: "" when none is
\* named, "ok" for a script that exists and is executable, "bad" otherwise
ScriptFound(res, key, ok) ==
  IF ~Truthy(Get(res, key)) THEN "" ELSE IF ok THEN "ok" ELSE "bad"

\* a check that lets every script pass
CheckedScriptPasses(res, key, hyphenated, ok) == [exits |-> FALSE, result |-> res]

\* if (argv[key]) { checkPermission(argv[key]); argv[key] = argv[hyphenated] = realpath }
\* ok: the script exists and is executable.  [exits, result]
CheckedScript(res, key, hyphenated, ok) ==
  LET script == Get(res, key)
  IN IF ~Truthy(script) THEN [exits |-> FALSE, result |-> res]
     ELSE IF script.k /= "string" \/ ~ok THEN [exits |-> TRUE, result |-> res]
     ELSE [exits |-> FALSE,
           result |-> Put(Put(res, hyphenated, Str(RealPath(script.s))),
                          key, Str(RealPath(script.s)))]

\* main(): argv is the object the parse returned; debug is process.env.DEBUG,
\* doneOk and exitOk tell whether the on-done and on-exit scripts pass
\* checkPermission.  A TypeError thrown inside main is not caught: the
\* process ends with code 1.
main(res, cmds, debug, doneOk, exitOk) ==
  LET quieted == IF debug \/ Truthy(Get(res, "stdout")) THEN enableQuiet(res) ELSE res
      subtitles == Get(quieted, "subtitles")
      done == CheckedScript(quieted, "onDone", "on-done", doneOk)
      exit == CheckedScript(done.result, "onExit", "on-exit", exitOk)
      argv2 == exit.result
      command == Positional(argv2, 0)
      uncaught(r) == Outcome("exited", r, FALSE, <<1>>, "", "")
      exits(r) == Outcome("exited", r, errorAndExit.expectedError, errorAndExit.exitCode, "", "")
  IN IF Truthy(Get(res, "help")) \/ Truthy(Get(res, "version"))
     THEN Outcome("dispatched", res, FALSE, <<>>,
                  IF Truthy(Get(res, "help")) THEN "help" ELSE "version", "")
     \* path.dirname(argv.subtitles) of a value that is no string
     ELSE IF Truthy(subtitles) /\ subtitles.k /= "string" THEN uncaught(quieted)
     ELSE IF done.exits THEN exits(quieted)
     ELSE IF exit.exits THEN exits(done.result)
     \* argv.playerArgs.split(' ') of a value that is no string
     ELSE IF PlayerName(argv2) /= "" /\ Truthy(Get(argv2, "playerArgs"))
                /\ Get(argv2, "playerArgs").k /= "string"
     THEN uncaught(argv2)
     ELSE Outcome("dispatched", argv2, FALSE, <<>>, "",
                  IF IsCommandKey(cmds, command) THEN command.s ELSE "*")

---------------------------------------------------------------------------
(* The command that runs: the callbacks of commands, the handlers they     *)
(* register and the functions these call.  Each takes and gives the state  *)
(* it reads and writes as one record s: the fields argv (s.result), the    *)
(* module variables (s.lets, s.expectedError), the torrent, the server,    *)
(* the WebTorrent instance and the effects.  After process.exit the code   *)
(* that follows does not run.  href and subtitlesServer are written and    *)
(* read back without a change of what the process does; torrent.so is      *)
(* read by the library only.                                               *)

\* let client, serving, drawInterval, gracefullyExiting = false, torrentCount = 1
\* client: the variable holds an instance; drawInterval: it holds a timer
InitialLets ==
  [client |-> FALSE, serving |-> FALSE, drawInterval |-> FALSE,
   gracefullyExiting |-> FALSE, torrentCount |-> 1]

\* no torrent yet.  kind: the handler that added it; infoHash, metadata, ready,
\* done: the event was emitted; onMetadata: the listener that saves the
\* .torrent file is registered; onReady: the onReady listeners registered
NoTorrent ==
  [kind |-> "", infoHash |-> FALSE, metadata |-> FALSE, ready |-> FALSE, done |-> FALSE,
   destroyed |-> FALSE, onMetadata |-> FALSE, onReady |-> 0]

\* no server yet.  onListening: the initServer listeners registered by listen;
\* onConnection: the listener of once('connection') is registered
NoServer == [state |-> "none", onListening |-> 0, onConnection |-> FALSE]

\* nothing done yet; process.on('SIGINT', gracefulExit) and
\* process.on('SIGTERM', gracefulExit) are registered when the module loads.
\* killed: a signal has ended the process; reported: UNEXPECTED ERROR was printed;
\* exitLines: the lines 'webtorrent is exiting...' printed; destroys: the calls
\* of client.destroy
NoEffects ==
  [signalListeners |-> TRUE, started |-> <<>>, initServer |-> 0, selections |-> <<>>,
   listed |-> FALSE, vlcCommand |-> 0, spawned |-> 0, players |-> <<>>, casting |-> FALSE,
   intervals |-> 0, scripts |-> <<>>, creating |-> FALSE, written |-> <<>>,
   killed |-> FALSE, reported |-> FALSE, exitLines |-> 0, destroys |-> 0]

\* torrent.files: the lengths of the files, the file of index i at place i + 1
Files == <<2, 5, 3>>

\* torrent.files.indexOf(torrent.files.reduce((a, b) => a.length > b.length ? a : b))
RECURSIVE LargestFrom(_, _)
LargestFrom(a, b) ==
  IF b > Len(Files) THEN a - 1
  ELSE LargestFrom(IF Files[a] > Files[b] THEN a ELSE b, b + 1)

LargestFile == LargestFrom(1, 2)

\* the index a number of argv names; an index of no file for the other numbers
IndexOf(text) ==
  CASE text = "0" -> 0 [] text = "1" -> 1 [] text = "2" -> 2 [] OTHER -> Len(Files)

\* path.extname(input).toLowerCase() === '.torrent' || /^magnet:/.test(input)
IsTorrentId(text) == text \in {"magnet:x", "magnet:y"}

\* process.exit of an error that was not caught: the code stays 1, unexpected
Uncaught(s) == [s EXCEPT !.exitCode = <<1>>]

\* fatalError(err): process.exit(1)
fatalError(s) == [s EXCEPT !.exitCode = <<1>>]

\* errorAndExit(err) inside a handler
ExitExpected(s) ==
  [s EXCEPT !.expectedError = errorAndExit.expectedError, !.exitCode = errorAndExit.exitCode]

\* enableQuiet() inside a handler
Quieted(s) == [s EXCEPT !.result = enableQuiet(@)]

\* gracefulExit() past its first test: print the exit line; remove the signal
\* listeners; without client, return; clearInterval(drawInterval); run the
\* on-exit script; client.destroy(...)
Exiting(s) ==
  LET exiting == [s EXCEPT !.lets.gracefullyExiting = TRUE,
                           !.effects.exitLines = @ + 1,
                           !.effects.signalListeners = FALSE]
  IN IF ~s.lets.client THEN exiting
     ELSE [exiting EXCEPT
             !.effects.intervals = IF s.lets.drawInterval THEN @ - 1 ELSE @,
             !.effects.scripts = IF Truthy(Get(s.result, "on-exit"))
                                 THEN Append(@, "on-exit") ELSE @,
             !.effects.destroys = @ + 1,
             !.webtorrent = "destroying"]

\* a gracefulExit that does not test gracefullyExiting
gracefulExitAgain(s) == Exiting(s)

\* gracefulExit(): if (gracefullyExiting) return
gracefulExit(s) == IF s.lets.gracefullyExiting THEN s ELSE Exiting(s)

\* drawTorrent(torrent): if (!argv.quiet) drawInterval = setInterval(draw, 1000)
drawTorrent(s) ==
  IF Truthy(Get(s.result, "quiet")) THEN s
  ELSE [s EXCEPT !.lets.drawInterval = TRUE, !.effects.intervals = @ + 1]

\* torrentDone(torrent)
torrentDone(s) ==
  LET scripted == IF Truthy(Get(s.result, "on-done"))
                  THEN [s EXCEPT !.effects.scripts = Append(@, "on-done")] ELSE s
  IN IF PlayerName(s.result) = "" /\ ~s.lets.serving /\ Truthy(Get(s.result, "out"))
          /\ ~Truthy(Get(s.result, "keep-seeding"))
     THEN LET destroyed == [scripted EXCEPT !.torrent.destroyed = TRUE]
          IN IF s.lets.torrentCount = 0 THEN gracefulExit(destroyed) ELSE destroyed
     ELSE scripted

\* torrent.on('done', ...): torrentCount -= 1; torrentDone(torrent)
onDone(s) ==
  torrentDone([s EXCEPT !.torrent.done = TRUE, !.lets.torrentCount = @ - 1])

\* a player exit that ends the program whatever argv.quit is
playerExitAlways(s) == gracefulExit(s)

\* playerExit(): if (argv.quit) gracefulExit()
playerExit(s) == IF Truthy(Get(s.result, "quit")) THEN gracefulExit(s) ELSE s

\* onSelection(index): the player of argv is started (vlc after vlcCommand
\* has found it), the chromecast browser unless argv.chromecast is false,
\* then drawTorrent(torrent)
onSelection(s, index) ==
  LET r == s.result
      selected == [s EXCEPT !.effects.selections = Append(@, index)]
      played ==
        IF Truthy(Get(r, "vlc")) THEN [selected EXCEPT !.effects.vlcCommand = @ + 1]
        ELSE IF Truthy(Get(r, "iina"))
        THEN [selected EXCEPT !.effects.spawned = @ + 1, !.effects.players = Append(@, "iina")]
        ELSE IF Truthy(Get(r, "mplayer"))
        THEN [selected EXCEPT !.effects.spawned = @ + 1,
                              !.effects.players = Append(@, "mplayer")]
        ELSE IF Truthy(Get(r, "mpv"))
        THEN [selected EXCEPT !.effects.spawned = @ + 1, !.effects.players = Append(@, "mpv")]
        ELSE IF Truthy(Get(r, "omx"))
        THEN [selected EXCEPT !.effects.spawned = @ + 1, !.effects.players = Append(@, "omx")]
        ELSE selected
      cast == IF Get(r, "chromecast") /= JsFalse
              THEN [played EXCEPT !.effects.casting = TRUE] ELSE played
  IN drawTorrent(cast)

\* onReady(): the list of files for a boolean argv.select, else the file of
\* index argv.select when it is a number, the largest file when it is not
onReady(s) ==
  LET select == Get(s.result, "select")
      index == IF TypeOf(select) = "number" THEN IndexOf(select.s) ELSE LargestFile
  IN IF TypeOf(select) = "boolean"
     THEN gracefulExit([s EXCEPT !.effects.listed = TRUE])
     ELSE IF index \notin 0..(Len(Files) - 1) THEN ExitExpected(s)
     ELSE onSelection(s, index)

\* the 'ready' event of the torrent calls each listener of once('ready', onReady)
RECURSIVE EmitReady(_, _)
EmitReady(s, n) ==
  IF n = 0 \/ s.exitCode /= <<>> THEN s ELSE EmitReady(onReady(s), n - 1)

\* initServer(): torrent.ready ? onReady() : torrent.once('ready', onReady)
initServer(s) ==
  LET called == [s EXCEPT !.effects.initServer = @ + 1]
  IN IF s.torrent.ready THEN onReady(called)
     ELSE [called EXCEPT !.torrent.onReady = @ + 1]

\* the 'listening' event of the server calls each listener listen has registered
RECURSIVE EmitListening(_, _)
EmitListening(s, n) ==
  IF n = 0 \/ s.exitCode /= <<>> THEN s ELSE EmitListening(initServer(s), n - 1)

\* .on('error', err => ...): server.listen(0, initServer) for a port that is
\* taken or not allowed, fatalError(err) for the rest
onListenError(s, code) ==
  IF code \in {"EADDRINUSE", "EACCES"}
  THEN [s EXCEPT !.server.state = "retrying", !.server.onListening = @ + 1]
  ELSE fatalError(s)

\* torrent.on('infoHash', ...) of runDownload and of runDownloadMeta: if
\* (argv.quiet) return, before the 'metadata' listener is registered
onInfoHash(s) ==
  LET emitted == [s EXCEPT !.torrent.infoHash = TRUE]
  IN IF Truthy(Get(s.result, "quiet")) THEN emitted
     ELSE [emitted EXCEPT !.torrent.onMetadata = TRUE]

\* torrent.on('metadata', ...) of runDownloadMeta: fs.writeFileSync(...);
\* gracefulExit().  The listener of runDownload only prints.
onMetadata(s) ==
  LET emitted == [s EXCEPT !.torrent.metadata = TRUE]
  IN IF s.torrent.kind = "downloadmeta" /\ s.torrent.onMetadata
     THEN gracefulExit([emitted EXCEPT !.effects.written = Append(@, "torrent")])
     ELSE emitted

\* runDownload(torrentId)
runDownload(s, torrentId) ==
  LET r == s.result
      out == IF ~Truthy(Get(r, "out")) /\ ~Truthy(Get(r, "stdout")) /\ PlayerName(r) = ""
             THEN Put(r, "out", Str("/cwd")) ELSE r
  IN [s EXCEPT !.result = out,
               !.lets.client = TRUE,
               !.webtorrent = "running",
               !.torrent = [NoTorrent EXCEPT !.kind = "download"],
               !.server = [state |-> "trying", onListening |-> 1, onConnection |-> TRUE]]

\* runDownloadMeta(torrentId)
runDownloadMeta(s, torrentId) ==
  LET r == s.result
      out == IF ~Truthy(Get(r, "out")) /\ ~Truthy(Get(r, "stdout"))
             THEN Put(r, "out", Str("/cwd")) ELSE r
  IN [s EXCEPT !.result = out,
               !.lets.client = TRUE,
               !.webtorrent = "running",
               !.torrent = [NoTorrent EXCEPT !.kind = "downloadmeta"]]

\* runSeed(input): path.extname of a value that is no string throws; a
\* torrent id is given to runDownload; else const client = new WebTorrent(...),
\* a constant of the function, and client.seed(input, ...)
runSeed(s, input) ==
  IF input.k /= "string" THEN Uncaught(s)
  ELSE IF IsTorrentId(input.s) THEN runDownload(s, input)
  ELSE [s EXCEPT !.webtorrent = "running",
                 !.torrent = [NoTorrent EXCEPT !.kind = "seed"]]

\* the callback of client.seed: drawTorrent(torrent)
onSeed(s) == drawTorrent([s EXCEPT !.torrent.ready = TRUE])

\* runInfo(torrentId): ok tells whether the torrent id or the file parses
runInfo(s, torrentId, ok) ==
  IF ~ok THEN ExitExpected(s)
  ELSE IF Truthy(Get(s.result, "out"))
  THEN [s EXCEPT !.effects.written = Append(@, "info")] ELSE s

\* runCreate(input): createTorrent(input, argv, ...) after the default of
\* argv.createdBy
runCreate(s, input) ==
  [s EXCEPT !.result = IF Truthy(Get(@, "createdBy")) THEN @
                       ELSE Put(@, "createdBy", Str("WebTorrent <https://webtorrent.io>")),
            !.effects.creating = TRUE]

\* the callback of createTorrent
onCreate(s, err) ==
  LET over == [s EXCEPT !.effects.creating = FALSE]
  IN IF err THEN ExitExpected(over)
     ELSE IF Truthy(Get(s.result, "out"))
     THEN [over EXCEPT !.effects.written = Append(@, "created")] ELSE over

\* runHelp() and runVersion()
runHelp(s) == [s EXCEPT !.shown = "help"]
runVersion(s) == [s EXCEPT !.shown = "version"]

\* fn(input), fn being runDownload, runDownloadMeta or runSeed
Handler(fn, s, input) ==
  LET called == [s EXCEPT !.effects.started = Append(@, <<fn, input>>)]
  IN CASE fn = "runDownload" -> runDownload(called, input)
       [] fn = "runDownloadMeta" -> runDownloadMeta(called, input)
       [] fn = "runSeed" -> runSeed(called, input)

\* const invalidArguments
InvalidArguments ==
  {"airplay", "chromecast", "dlna", "mplayer", "mpv", "omx", "vlc", "iina", "xbmc",
   "stdout", "select", "subtitles"}

\* processInputs(inputs, fn): for more than one input the invalid arguments
\* are refused, torrentCount is set and quiet enabled; fn is called for the
\* one input of a list of one
processInputs(s, inputs, fn) ==
  IF inputs.k /= "array" THEN s
  ELSE IF Len(inputs.a) > 1
  THEN IF \E arg \in InvalidArguments : Truthy(Get(s.result, arg))
       THEN ExitExpected(s)
       ELSE Quieted([s EXCEPT !.lets.torrentCount = Len(inputs.a)])
  ELSE Handler(fn, s, IF inputs.a = <<>> THEN Undefined ELSE inputs.a[1])

\* commands[key].cb(argv)
Callback(s, key, infoOk) ==
  LET r == s.result
  IN CASE key = "*" -> IF Truthy(Get(r, "torrentIds"))
                       THEN processInputs(s, Get(r, "torrentIds"), "runDownload")
                       ELSE runHelp(s)
       [] key = "download" -> processInputs(s, Get(r, "torrentIds"), "runDownload")
       [] key = "downloadmeta" -> processInputs(s, Get(r, "torrentIds"), "runDownloadMeta")
       [] key = "seed" -> processInputs(s, Get(r, "inputs"), "runSeed")
       [] key = "create" -> runCreate(s, Get(r, "input"))
       [] key = "info" -> runInfo(s, Get(r, "torrentId"), infoOk)
       [] key = "version" -> runVersion(s)
       [] key = "help" -> runHelp(s)

---------------------------------------------------------------------------
(* The state machine: the call of minimistPrettyParse, then main or        *)
(* errorAndExit when the call is the one of the process                    *)

\* the options and commands of bin/cmd.js
RealSchema == options = AllOptions /\ commands = Commands

\* the process before the call of line 1765
Loaded ==
  /\ pc = "parse"
  /\ result = <<>>
  /\ anyTypeOptions = <<>>
  /\ local = NoLocal
  /\ thrown = NoError
  /\ expectedError = FALSE
  /\ exitCode = <<>>
  /\ shown = ""
  /\ callback = ""
  /\ env = [DEBUG |-> FALSE, onDone |-> "", onExit |-> ""]
  /\ lets = InitialLets
  /\ torrent = NoTorrent
  /\ server = NoServer
  /\ webtorrent = "none"
  /\ effects = NoEffects

Init ==
  /\ \E c \in Cases :
       /\ options = c.options
       /\ commands = c.commands
       /\ argv \in ArgLists(c.tokens)
  /\ Loaded

\* the state the handlers read and write, as one record
State ==
  [result |-> result, expectedError |-> expectedError, exitCode |-> exitCode,
   shown |-> shown, lets |-> lets, torrent |-> torrent, server |-> server,
   webtorrent |-> webtorrent, effects |-> effects]

\* an exit report for every code but 0
onExitUnlessZero(s) == [s EXCEPT !.effects.reported = (s.exitCode /= <<0>>)]

\* process.on('exit', code => ...): UNEXPECTED ERROR is printed unless the
\* code is 0 or 130 or expectedError is set
onExit(s) ==
  [s EXCEPT !.effects.reported =
              ~(s.exitCode = <<0>> \/ s.expectedError) /\ s.exitCode /= <<130>>]

\* the process emits 'exit' when it ends, unless a signal has ended it
Ended(s) == IF s.exitCode /= <<>> /\ ~s.effects.killed THEN onExit(s) ELSE s

\* the state a handler has left
Becomes(s) ==
  /\ result' = Ended(s).result
  /\ expectedError' = Ended(s).expectedError
  /\ exitCode' = Ended(s).exitCode
  /\ shown' = Ended(s).shown
  /\ lets' = Ended(s).lets
  /\ torrent' = Ended(s).torrent
  /\ server' = Ended(s).server
  /\ webtorrent' = Ended(s).webtorrent
  /\ effects' = Ended(s).effects

\* a parse that takes the arguments out of the list it was given
TokenizeConsumingArgs ==
  /\ pc = "parse"
  /\ LET built == buildOptions(options)
     IN /\ result' = minimist(argv, built)
        /\ anyTypeOptions' = built.any
  /\ pc' = "post"
  /\ argv' = <<>>
  /\ UNCHANGED <<options, commands, local, thrown, procVars, runVars>>

\* const result = minimist(argv, options ? buildOptions() : {})
Tokenize ==
  /\ pc = "parse"
  /\ LET built == buildOptions(options)
     IN /\ result' = minimist(argv, built)
        /\ anyTypeOptions' = built.any
  /\ pc' = "post"
  /\ UNCHANGED <<argv, options, commands, local, thrown, procVars, runVars>>

\* anyTypeOptions.forEach((key) => { result[key] = ... })
Normalize ==
  /\ pc = "post"
  /\ result' = PostProcess(result, anyTypeOptions, 1)
  /\ pc' = "templates"
  /\ UNCHANGED <<argv, options, commands, anyTypeOptions, local, thrown, procVars, runVars>>

\* if (commands) parseTemplates(): up to the for loop
ResolveCommand ==
  /\ pc = "templates"
  /\ LET sel == SelectCommand(result, commands)
     IN /\ local' = sel.local
        /\ thrown' = sel.thrown
        /\ pc' = IF sel.next = "return" THEN "returned" ELSE sel.next
  /\ UNCHANGED <<argv, options, commands, result, anyTypeOptions, procVars, runVars>>

\* one iteration of the for loop
BindPositional ==
  /\ pc = "loop"
  /\ local.index < Len(local.template)
  /\ LET step == BindArgument(result, local)
     IN /\ result' = step.result
        /\ local' = step.local
        /\ thrown' = step.thrown
        /\ pc' = IF step.thrown /= NoError THEN "thrown" ELSE "loop"
  /\ UNCHANGED <<argv, options, commands, anyTypeOptions, procVars, runVars>>

\* the loop is over: return result
Return ==
  /\ pc = "loop"
  /\ local.index >= Len(local.template)
  /\ pc' = "returned"
  /\ UNCHANGED <<argv, options, commands, result, anyTypeOptions, local, thrown, procVars, runVars>>

\* catch (err) { errorAndExit(err) }: the call of line 1765 has thrown
ErrorAndExit ==
  /\ pc = "thrown"
  /\ RealSchema
  /\ Becomes([State EXCEPT !.expectedError = errorAndExit.expectedError,
                           !.exitCode = errorAndExit.exitCode])
  /\ pc' = "exited"
  /\ UNCHANGED <<argv, options, commands, anyTypeOptions, local, thrown, callback, env>>

\* if (require.main === module) main(): the call of line 1765 has returned
Main ==
  /\ pc = "returned"
  /\ RealSchema
  /\ \E debug \in BOOLEAN, doneOk \in BOOLEAN, exitOk \in BOOLEAN, infoOk \in BOOLEAN :
       LET out == main(result, commands, debug, doneOk, exitOk)
           called == [State EXCEPT !.result = out.result,
                                   !.expectedError = (expectedError \/ out.expectedError),
                                   !.exitCode = out.exitCode,
                                   !.shown = out.shown]
           \* commands[command].cb(argv), the last statement of main
           after == IF out.callback = "" THEN called
                    ELSE Callback(called, out.callback, infoOk)
       IN /\ Becomes(after)
          /\ pc' = IF after.exitCode /= <<>> THEN "exited" ELSE out.pc
          /\ callback' = out.callback
          /\ env' = [DEBUG |-> debug,
                     onDone |-> ScriptFound(result, "onDone", doneOk),
                     onExit |-> ScriptFound(result, "onExit", exitOk)]
  /\ UNCHANGED <<argv, options, commands, anyTypeOptions, local, thrown>>

Next ==
  \/ Tokenize \/ Normalize \/ ResolveCommand \/ BindPositional \/ Return
  \/ ErrorAndExit \/ Main

Spec == Init /\ [][Next]_vars

---------------------------------------------------------------------------
(* The events of the command that runs: each is the call of one listener   *)
(* or callback, which runs to its end before the next event is taken       *)

\* main is over and the process lives
Running == pc = "dispatched" /\ exitCode = <<>>

\* the torrent and its server emit events
TorrentLives == Running /\ webtorrent = "running" /\ ~torrent.destroyed

\* a listener has run
Handled(s) ==
  /\ Becomes(s)
  /\ pc' = IF s.exitCode /= <<>> THEN "exited" ELSE pc
  /\ UNCHANGED <<argv, options, commands, anyTypeOptions, local, thrown, callback, env>>

\* SIGINT or SIGTERM: gracefulExit while it is the listener of the signal,
\* the end of the process once the listener is removed
Signal ==
  /\ Running
  /\ \E code \in {130, 143} :
       Handled(IF effects.signalListeners THEN gracefulExit(State)
               ELSE [State EXCEPT !.exitCode = <<code>>, !.effects.killed = TRUE])

\* torrent.on('infoHash', ...)
TorrentInfoHash ==
  /\ TorrentLives
  /\ torrent.kind \in {"download", "downloadmeta"}
  /\ ~torrent.infoHash
  /\ Handled(onInfoHash(State))

\* torrent.on('metadata', ...)
TorrentMetadata ==
  /\ TorrentLives
  /\ torrent.infoHash
  /\ ~torrent.metadata
  /\ Handled(onMetadata(State))

\* the 'ready' event of the torrent of runDownload
TorrentReady ==
  /\ TorrentLives
  /\ torrent.kind = "download"
  /\ torrent.metadata
  /\ ~torrent.ready
  /\ Handled(EmitReady([State EXCEPT !.torrent.ready = TRUE, !.torrent.onReady = 0],
                        torrent.onReady))

\* torrent.on('done', ...)
TorrentDone ==
  /\ TorrentLives
  /\ torrent.kind = "download"
  /\ torrent.ready
  /\ ~torrent.done
  /\ Handled(onDone(State))

\* the 'listening' event of the server
ServerListening ==
  /\ TorrentLives
  /\ server.state \in {"trying", "retrying"}
  /\ Handled(EmitListening([State EXCEPT !.server.state = "listening",
                                          !.server.onListening = 0],
                            server.onListening))

\* the 'error' event of the server: listening on argv.port has failed
ServerError ==
  /\ TorrentLives
  /\ server.state = "trying"
  /\ \E code \in {"EADDRINUSE", "EACCES", "EADDRNOTAVAIL"} :
       Handled(onListenError(State, code))

\* server.once('connection', () => (serving = true))
ServerConnection ==
  /\ TorrentLives
  /\ server.state = "listening"
  /\ server.onConnection
  /\ Handled([State EXCEPT !.lets.serving = TRUE, !.server.onConnection = FALSE])

\* the callback of vlcCommand: fatalError(err), or openPlayer(...)
VlcCommand ==
  /\ Running
  /\ effects.vlcCommand > 0
  /\ \E err \in BOOLEAN :
       LET back == [State EXCEPT !.effects.vlcCommand = @ - 1]
       IN Handled(IF err THEN fatalError(back)
                  ELSE [back EXCEPT !.effects.spawned = @ + 1,
                                    !.effects.players = Append(@, "vlc")])

\* .on('exit', playerExit), and .then(playerExit) for iina
PlayerExit ==
  /\ Running
  /\ effects.players /= <<>>
  /\ Handled(playerExit([State EXCEPT !.effects.players = Tail(@)]))

\* .on('error', ...) of the spawned player: fatalError(err) but for the
\* code 4 of mpv
PlayerError ==
  /\ Running
  /\ effects.players /= <<>>
  /\ Head(effects.players) /= "iina"
  /\ \E code \in {2, 4} :
       Handled(IF PlayerName(result) = "mpv" /\ code = 4 THEN State ELSE fatalError(State))

\* player.on('error', ...) of a chromecast: errorAndExit(err)
ChromecastError ==
  /\ Running
  /\ effects.casting
  /\ Handled(ExitExpected(State))

\* the callback of client.seed
Seeding ==
  /\ TorrentLives
  /\ torrent.kind = "seed"
  /\ ~torrent.ready
  /\ Handled(onSeed(State))

\* the callback of createTorrent
CreateTorrent ==
  /\ Running
  /\ effects.creating
  /\ \E err \in BOOLEAN : Handled(onCreate(State, err))

\* client.on('error', fatalError)
ClientError ==
  /\ Running
  /\ webtorrent = "running"
  /\ Handled(fatalError(State))

\* the callback of client.destroy: fatalError(err), or the timer of one second
ClientDestroyed ==
  /\ Running
  /\ webtorrent = "destroying"
  /\ \E err \in BOOLEAN :
       Handled(IF err THEN fatalError(State) ELSE [State EXCEPT !.webtorrent = "destroyed"])

\* setTimeout(() => process.exit(0), 1000)
ExitTimeout ==
  /\ Running
  /\ webtorrent = "destroyed"
  /\ Handled([State EXCEPT !.exitCode = <<0>>])

\* nothing is left to wait for: the process ends by itself
EventLoopEmpty ==
  /\ Running
  /\ webtorrent = "none"
  /\ ~effects.creating
  /\ Handled([State EXCEPT !.exitCode = <<0>>])

\* the argument lists of the runs
RunArgs ==
  { <<>>, <<"version">>, <<"download">>, <<"magnet:x">>,
    <<"download", "magnet:x">>,
    <<"download", "magnet:x", "-q">>,
    <<"download", "magnet:x", "--stdout">>,
    <<"download", "magnet:x", "--keep-seeding">>,
    <<"download", "magnet:x", "--on-exit", "script">>,
    <<"download", "magnet:x", "--on-done", "script">>,
    <<"download", "magnet:x", "--select">>,
    <<"download", "magnet:x", "--select", "0">>,
    <<"download", "magnet:x", "--vlc">>,
    <<"download", "magnet:x", "--vlc", "--no-quit">>,
    <<"download", "magnet:x", "--mpv">>,
    <<"download", "magnet:x", "--mpv", "--no-quit">>,
    <<"download", "magnet:x", "--mpv", "--on-exit", "script">>,
    <<"download", "magnet:x", "--iina">>,
    <<"download", "magnet:x", "--chromecast">>,
    <<"download", "magnet:x", "magnet:y">>,
    <<"download", "magnet:x", "magnet:y", "--vlc">>,
    <<"download", "magnet:x", "magnet:y", "--stdout">>,
    <<"download", "magnet:x", "magnet:y", "--select">>,
    <<"download", "magnet:x", "magnet:y", "--select", "0">>,
    <<"downloadmeta", "magnet:x">>,
    <<"downloadmeta", "magnet:x", "-q">>,
    <<"seed", "fileA">>,
    <<"seed", "fileA", "fileB">>,
    <<"seed", "fileA", "--on-exit", "script">>,
    <<"seed", "magnet:x">>,
    <<"seed", "magnet:x", "--on-exit", "script">>,
    <<"create", "fileA">>,
    <<"info", "fileA">>,
    <<"--version", "--on-done", "script">>,
    <<"magnet:x", "-t", "fileA", "-t", "fileB", "--on-exit", "script">> }

InitRun ==
  /\ options = AllOptions
  /\ commands = Commands
  /\ argv \in RunArgs
  /\ Loaded

NextRun ==
  \/ Tokenize \/ Normalize \/ ResolveCommand \/ BindPositional \/ Return
  \/ ErrorAndExit \/ Main
  \/ Signal \/ TorrentInfoHash \/ TorrentMetadata \/ TorrentReady \/ TorrentDone
  \/ ServerListening \/ ServerError \/ ServerConnection
  \/ VlcCommand \/ PlayerExit \/ PlayerError \/ ChromecastError
  \/ Seeding \/ CreateTorrent \/ ClientError \/ ClientDestroyed \/ ExitTimeout
  \/ EventLoopEmpty

\* the whole run of the process
SpecRun == InitRun /\ [][NextRun]_vars

\* the client calls the callback of destroy, and the timer of one second fires
FairRun == SpecRun /\ WF_vars(ClientDestroyed) /\ WF_vars(ExitTimeout)

---------------------------------------------------------------------------
(* Vocabulary of the properties *)

\* the call is over: the result was returned or an error thrown
Terminal == pc \in {"returned", "thrown"}

\* the residual positionals, result._
Residual == result["_"].a

\* the arguments minimist reads as flags and values: those before a "--"
FlagArgs ==
  IF IndexOfDashDash(argv, 1) = 0 THEN argv
  ELSE SubSeq(argv, 1, IndexOfDashDash(argv, 1) - 1)

\* the token-ordering invariant of a template: a variadic token only last,
\* no required token after an optional one
WellOrdered(template) ==
  LET pieces == TemplateSplit(template)
  IN \A i \in 1..Len(pieces) :
       /\ PieceOf(pieces[i]).matches
       /\ PieceOf(pieces[i]).isArray => i = Len(pieces)
       /\ \A j \in 1..(i - 1) :
            ~PieceOf(pieces[j]).required => ~PieceOf(pieces[i]).required

OrderingInvariant(cmds) ==
  \A n \in 1..Len(cmds) : cmds[n].template /= "" => WellOrdered(cmds[n].template)

\* the errors that report a violated usage rule
UsageErrorTexts ==
  {"is required", "argument is required", "Too many arguments", "Was not expecting arguments"}

Strs(tokens) == [n \in 1..Len(tokens) |-> Str(tokens[n])]

---------------------------------------------------------------------------
(* C1: for every schema whose templates satisfy the token-ordering         *)
(* invariant, templates of two or more tokens included, a parse that fails *)
(* fails with a usage error (missing required argument, too many           *)
(* arguments), never with another fault.                                   *)
(* Fails: a template with a space reads commands[commands] and throws a    *)
(* TypeError.                                                              *)
C1_OnlyUsageErrors ==
  (OrderingInvariant(commands) /\ pc = "thrown")
    => (thrown.name = "Error" /\ thrown.text \in UsageErrorTexts)

(* C2: for the command cmd with template <x> <y>: cmd a b c fails with     *)
(* too many arguments, cmd a fails with the missing y, cmd a b returns     *)
(* x = a and y = b.                                                        *)
(* Fails: every parse of this command throws the TypeError of C1.          *)
C2_ArityEnforced ==
  (commands = ArityCommands /\ Terminal) =>
    /\ argv = <<"cmd", "a", "b", "c">> =>
         (pc = "thrown" /\ thrown = Error("Too many arguments", "", "cmd"))
    /\ argv = <<"cmd", "a">> =>
         (pc = "thrown" /\ thrown = Error("argument is required", "y", "cmd"))
    /\ argv = <<"cmd", "a", "b">> =>
         (pc = "returned" /\ Get(result, "x") = Str("a") /\ Get(result, "y") = Str("b"))

OptionalVariadicResolved ==
  /\ Terminal
  /\ Len(local.template) = 1
  /\ PieceOf(local.template[1]).isArray
  /\ ~PieceOf(local.template[1]).required

C4_RequiredVariadic ==
  (RealSchema /\ Terminal /\ local.command \in {"download", "downloadmeta", "seed"}) =>
    LET name == IF local.command = "seed" THEN "inputs" ELSE "torrent-ids"
        rest == Tail(Residual)
    IN IF rest = <<>>
       THEN pc = "thrown" /\ thrown = Error("is required", name, local.command)
       ELSE pc = "returned" /\ Get(result, name) = Arr(rest)

C4_Witness ==
  /\ RealSchema /\ pc = "returned" /\ local.command = "download"
  /\ Get(result, "torrent-ids") = Arr(Strs(<<"fileA", "fileB">>))

(* C5: for create <input> and info <torrent-id>: exactly one positional    *)
(* after the command name binds the token, none fails with the             *)
(* missing-required error, two or more fail with too many arguments.       *)
(* Fails: a single positional that is falsy (0, '') is reported missing.   *)
C5_SingleRequired ==
  (RealSchema /\ Terminal /\ local.command \in {"create", "info"}) =>
    LET name == IF local.command = "create" THEN "input" ELSE "torrent-id"
        n == Len(Residual) - 1
    IN /\ n = 1 => (pc = "returned" /\ Get(result, name) = Residual[2])
       /\ n = 0 => (pc = "thrown"
                    /\ thrown = Error("argument is required", name, local.command))
       /\ n >= 2 => (pc = "thrown"
                     /\ thrown = Error("Too many arguments", "", local.command))

\* the command names of the schema: its keys but the default-command sentinel
DeclaredNames == {commands[n].name : n \in 1..Len(commands)} \ {"*"}

(* C6: when the first residual positional is not a declared command name   *)
(* the default command is resolved and the whole residual list, that first *)
(* token included, is bound to torrent-ids; a command name at a later      *)
(* position is an ordinary positional.                                     *)
(* Fails: the first token * selects the entry '*' as a named command and   *)
(* is left out of the binding.                                             *)
C6_DefaultResolution ==
  (RealSchema /\ Terminal /\ Residual /= <<>>
     /\ ~(Residual[1].k = "string" /\ Residual[1].s \in DeclaredNames)) =>
    /\ pc = "returned"
    /\ local.isDefault
    /\ Get(result, "torrent-ids") = Arr(Residual)

\* the arguments seed fileA fileB -q
SeedScenario == RealSchema /\ Terminal /\ argv = <<"seed", "fileA", "fileB", "-q">>

C8_AliasEquivalence ==
  (RealSchema /\ Terminal) =>
    \A f \in AliasedFlags : \A i \in 1..(Len(argv) - 1) :
      argv[i] = f[1] =>
        LET other == minimistPrettyParse([argv EXCEPT ![i] = f[2]], options, commands)
        IN other.result = result /\ other.thrown = thrown

\* token t is among the flags of the arguments
HasFlag(t) == \E i \in 1..Len(FlagArgs) : FlagArgs[i] = t

(* C9: without an explicit --quit, quit is true when --no-quit is not      *)
(* given and false when it is; it takes no other value.                    *)
C9_NegatedDefault ==
  (RealSchema /\ pc /= "parse" /\ ~HasFlag("--quit")) =>
    Get(result, "quit") = IF HasFlag("--no-quit") THEN JsFalse ELSE JsTrue

C9_Witness ==
  /\ RealSchema /\ pc = "returned" /\ HasFlag("--no-quit") /\ ~HasFlag("--quit")
  /\ Get(result, "quit") = JsFalse

\* the options of type 'any'
AnyTypeKeys == {"chromecast", "omx"}

\* the positions where the flag --key or --key=value is given
Occurrences(key) ==
  {i \in 1..Len(FlagArgs) :
     Lex(FlagArgs[i]).form \in {"long", "eq"} /\ Lex(FlagArgs[i]).key = key}

\* the value the occurrence at position i gives: true for none or an empty one
GivenValue(i) ==
  LET lex == Lex(FlagArgs[i])
      given == IF lex.form = "eq" THEN lex.val
               ELSE IF i < Len(FlagArgs) /\ ~StartsWithDash(FlagArgs[i + 1])
                    THEN FlagArgs[i + 1]
                    ELSE ""
  IN IF given = "" THEN JsTrue ELSE Str(given)

\* the post-processing has run
Normalized == pc \notin {"parse", "post"}

StringFlagNames ==
  {options[n].key : n \in {m \in 1..Len(options) : options[m].type = "string"}}
    \cup {options[n].alias :
            n \in {m \in 1..Len(options) : options[m].type = "string"
                                             /\ options[m].alias /= ""}}

\* the last of the arguments read as flags is a bare flag of a string option
EndsWithStringFlag ==
  /\ FlagArgs /= <<>>
  /\ Lex(FlagArgs[Len(FlagArgs)]).form \in {"long", "short"}
  /\ Lex(FlagArgs[Len(FlagArgs)]).key \in StringFlagNames

(* C11: when a flag of a string option (--out, --announce) is the last     *)
(* argument, so that no value remains for it, the parse fails with an      *)
(* error and returns no result.                                            *)
(* Fails: the parse returns, with the empty string as the option's value.  *)
C11_MissingValueReported ==
  (RealSchema /\ Terminal /\ EndsWithStringFlag) =>
    (pc = "thrown" /\ thrown.name = "Error")

\* the flag of option o is among the arguments, in any of its spellings
FlagGiven(o) ==
  \E i \in 1..Len(FlagArgs) :
    /\ Lex(FlagArgs[i]).form /= "plain"
    /\ Lex(FlagArgs[i]).key \in {o.key, o.alias, CamelCase(o.key)}

(* C12: in every result returned, each option declared with a default is   *)
(* present and holds that default when its flag is not among the           *)
(* arguments, falsy defaults (false, 0, '') included.                      *)
(* Fails: a default of 0 or '' is dropped by the truthiness test, and the   *)
(* option reads false (registered as a boolean) or is absent.              *)
C12_DefaultsPresent ==
  pc = "returned" =>
    \A n \in 1..Len(options) :
      (options[n].default /= Undefined /\ ~FlagGiven(options[n])) =>
        (options[n].key \in DOMAIN result /\ result[options[n].key] = options[n].default)

\* values minimist can leave under the key of an option of type 'any'
RawValues ==
  { Undefined, Str(""), Str("tv"), JsTrue, JsFalse, Num("0"),
    Arr(<<Str(""), Str("")>>), Arr(<<Str("tv"), Str("")>>) }

BooleanFlagNames ==
  {options[n].key : n \in {m \in 1..Len(options) : OptionType(options[m]) = "boolean"}}
    \cup {options[n].alias :
            n \in {m \in 1..Len(options) : OptionType(options[m]) = "boolean"
                                             /\ options[m].alias /= ""}}

IsPlain(t) == Lex(t).form = "plain"

\* the arguments hold no "--", and every flag among them is a bare flag of a
\* boolean option
OnlyBooleanFlags ==
  /\ IndexOfDashDash(argv, 1) = 0
  /\ \E i \in 1..Len(argv) : ~IsPlain(argv[i])
  /\ \A i \in 1..Len(argv) :
       ~IsPlain(argv[i]) =>
         (Lex(argv[i]).form \in {"long", "short"} /\ Lex(argv[i]).key \in BooleanFlagNames)

(* C14: a bare flag of a boolean option sets its key to true and consumes  *)
(* no token: with only such flags among the arguments the residual list is *)
(* the other arguments in their order, whatever follows a flag, and        *)
(* seed -q fileA fileB binds inputs = [fileA, fileB].                      *)
(* Fails: the token true or false after a boolean flag is taken as the     *)
(* flag's value and leaves the residual list.                              *)
C14_BooleanConsumesNothing ==
  (RealSchema /\ pc /= "parse" /\ OnlyBooleanFlags) =>
    /\ [n \in 1..Len(Residual) |-> Residual[n].s] = SelectSeq(argv, IsPlain)
    /\ \A i \in 1..Len(argv) :
         ~IsPlain(argv[i]) => Get(result, Lex(argv[i]).key) = JsTrue
    /\ (Terminal /\ argv = <<"seed", "-q", "fileA", "fileB">>) =>
         (pc = "returned" /\ Get(result, "inputs") = Arr(Strs(<<"fileA", "fileB">>)))

\* the hyphenated keys among the options
HyphenatedOptionKeys ==
  {options[n].key : n \in {m \in 1..Len(options) : IsHyphenated(options[m].key)}}

\* the hyphenated token names of the resolved command's template
HyphenatedTokenNames ==
  {PieceOf(local.template[n]).name :
     n \in {m \in 1..Len(local.template) : IsHyphenated(PieceOf(local.template[m]).name)}}

(* C15: in every result returned, each hyphenated option key has its       *)
(* camelCase key with the same value (both present or both absent),        *)
(* whichever spelling was typed, and each hyphenated token name of the     *)
(* resolved command has its camelCase key, holding the value of the token. *)
C15_CamelCaseMirrors ==
  pc = "returned" =>
    /\ \A key \in HyphenatedOptionKeys :
         /\ key \in DOMAIN result <=> CamelCase(key) \in DOMAIN result
         /\ Get(result, CamelCase(key)) = Get(result, key)
    /\ \A name \in HyphenatedTokenNames :
         /\ CamelCase(name) \in DOMAIN result
         /\ result[CamelCase(name)] = Get(result, name)

C15_Witness ==
  /\ RealSchema /\ pc = "returned"
  /\ argv = <<"--dhtPort", "0", "info", "fileA">>
  /\ Get(result, "dht-port") = Str("0")
  /\ Get(result, "torrentId") = Str("fileA")

\* v is an array of at least one element
NonEmptyArray(v) == v.k = "array" /\ Len(v.a) >= 1

(* C16: whenever main has called the callback of a command, the field the  *)
(* callback reads is settled: download, downloadmeta and seed find a       *)
(* non-empty array (the positionals after the command name), create and    *)
(* info find the positional after the command name, and the default        *)
(* command finds its optional field either bound to a non-empty array or   *)
(* present and undefined.                                                  *)
C16_FieldsSettled ==
  callback /= "" =>
    /\ callback \in {"download", "downloadmeta"} =>
         (NonEmptyArray(Get(result, "torrentIds"))
            /\ Get(result, "torrentIds") = Arr(Tail(Residual)))
    /\ callback = "seed" =>
         (NonEmptyArray(Get(result, "inputs")) /\ Get(result, "inputs") = Arr(Tail(Residual)))
    /\ callback = "create" =>
         (Get(result, "input") /= Undefined /\ Get(result, "input") = Positional(result, 1))
    /\ callback = "info" =>
         (Get(result, "torrentId") /= Undefined
            /\ Get(result, "torrentId") = Positional(result, 1))
    /\ callback = "*" =>
         /\ "torrentIds" \in DOMAIN result
         /\ result["torrentIds"] = Undefined \/ NonEmptyArray(result["torrentIds"])

C16_Witness ==
  /\ callback = "create" /\ Get(result, "input") = Str("fileA")
  /\ argv = <<"create", "fileA">>

(* C17: with a command whose template breaks the ordering invariant (a     *)
(* required token after an optional one) every parse fails with the        *)
(* invalid-template error, whatever the arguments.                         *)
(* Fails: the template is read only when the arguments select its command, *)
(* and then the TypeError of C1 is thrown.                                 *)
C17_SchemaErrorAlways ==
  (~OrderingInvariant(commands) /\ Terminal) =>
    /\ pc = "thrown"
    /\ \E n \in 1..Len(commands) :
         thrown = Error("Invalid argument template", "", commands[n].name)

\* two options of the schema declare the same alias
AliasCollision ==
  \E m \in 1..Len(options), n \in 1..Len(options) :
    m /= n /\ options[m].alias /= "" /\ options[m].alias = options[n].alias

(* C18: a schema in which two options declare the same alias is rejected:  *)
(* every parse against it fails with an error that is not a usage error.   *)
(* Fails: the later option takes the alias over and the parse returns.     *)
C18_CollisionRejected ==
  (AliasCollision /\ Terminal) =>
    (pc = "thrown" /\ thrown.name = "Error" /\ thrown.text \notin UsageErrorTexts)

(* C19: the parse never ends the process: up to the point where it has    *)
(* returned or thrown the process has not exited and nothing was           *)
(* dispatched.  Once the parse has thrown, no further step of the parse    *)
(* runs, the only step left is the caller's errorAndExit, which exits with *)
(* code 1 and the expected-error mark set, and main never runs: nothing is *)
(* printed for --help or --version and no callback is called.              *)
C19_ParseFailureExits ==
  /\ pc \in {"parse", "post", "templates", "loop", "returned", "thrown"} =>
       (exitCode = <<>> /\ ~expectedError /\ shown = "" /\ callback = "")
  /\ thrown /= NoError =>
       /\ pc \in {"thrown", "exited"}
       /\ shown = "" /\ callback = ""
       /\ pc = "exited" => (exitCode = <<1>> /\ expectedError)

C19_Witness ==
  /\ pc = "exited" /\ exitCode = <<1>> /\ expectedError
  /\ argv = <<"download">>
  /\ thrown = Error("is required", "torrent-ids", "download")

\* the first residual positional names a command other than the sentinel key
NamesCommand ==
  Residual /= <<>> /\ Residual[1].k = "string" /\ Residual[1].s \in DeclaredNames

\* the template of the command the arguments name, of the default command
\* when they name none
NamedTemplate ==
  CommandNamed(commands, IF NamesCommand THEN Residual[1].s ELSE "*").template

(* C21: for a command that declares no template, the default command      *)
(* fails exactly when there is a residual positional, and a named command *)
(* exactly when a positional follows its name; the failure is "Was not    *)
(* expecting arguments".                                                  *)
(* Fails: the first token * selects the entry '*' as a named command, so  *)
(* the positional * is accepted by a default command without template.    *)
C21_NoTemplateCommands ==
  (Terminal /\ HasCommand(commands, "*") /\ NamedTemplate = "") =>
    /\ thrown \in {NoError, Error("Was not expecting arguments", "", "")}
    /\ (thrown /= NoError) <=>
         (IF NamesCommand THEN Len(Residual) > 1 ELSE Len(Residual) > 0)

\* the scripts the process has executed
Executed == {effects.scripts[i] : i \in 1..Len(effects.scripts)}

\* a handler was called: the command has started torrent work
TorrentWork == effects.started /= <<>> /\ webtorrent /= "none"

(* C22: with an --on-exit script configured, once gracefulExit has been   *)
(* initiated in a command that started torrent work, the script has been  *)
(* executed.                                                              *)
(* Fails: runSeed keeps its instance in a constant of its own, the module *)
(* variable client stays undefined and gracefulExit returns before the    *)
(* script.                                                                *)
C22_OnExitScriptRuns ==
  (lets.gracefullyExiting /\ TorrentWork /\ Truthy(Get(result, "on-exit"))) =>
    "on-exit" \in Executed

\* the argument list holds the token
Given(token) == \E i \in 1..Len(argv) : argv[i] = token

(* C23: when the spawned player exits and --no-quit was not given,        *)
(* gracefulExit is initiated; when --no-quit was given the exit of the    *)
(* player initiates nothing and the program keeps running.                *)
C23_PlayerExitAndNoQuit ==
  [][PlayerExit =>
       IF Given("--no-quit")
       THEN /\ lets' = lets
            /\ webtorrent' = webtorrent
            /\ exitCode' = <<>>
            /\ pc' = pc
       ELSE lets'.gracefullyExiting]_vars

\* a player has exited under --no-quit and the download goes on
C23_Witness ==
  /\ Given("--no-quit")
  /\ effects.spawned = 1
  /\ effects.players = <<>>
  /\ ~lets.gracefullyExiting
  /\ webtorrent = "running"
  /\ exitCode = <<>>

\* a streaming option of argv is set: a player is selected
PlayerSelected == \E name \in StreamingNames \ {"stdout"} : Truthy(Get(result, name))

(* C24: the 'done' event of a torrent destroys the torrent only when no   *)
(* player is selected, no HTTP connection was served, an output path is   *)
(* set and --keep-seeding is not given; gracefulExit is then initiated    *)
(* only when no torrent is left unfinished; with --keep-seeding the event *)
(* neither destroys the torrent nor initiates the exit.                   *)
(* Fails: playerName is null whenever the options are the ones minimist   *)
(* returns, so a download with a player is destroyed and ended as well.   *)
C24_DoneDestroysOnlyUnwatched ==
  [][TorrentDone =>
       /\ torrent'.destroyed =>
            /\ ~PlayerSelected
            /\ ~lets.serving
            /\ Truthy(Get(result, "out"))
            /\ ~Truthy(Get(result, "keep-seeding"))
       /\ lets'.gracefullyExiting => (torrent'.destroyed /\ lets'.torrentCount = 0)
       /\ Truthy(Get(result, "keep-seeding")) =>
            (~torrent'.destroyed /\ ~lets'.gracefullyExiting)]_vars

\* --select is the last argument: it was given without an index
SelectWithoutIndex == argv /= <<>> /\ argv[Len(argv)] = "--select"

\* the indexes given with --select
SelectIndexes ==
  {IndexOf(argv[i + 1]) : i \in {j \in 1..(Len(argv) - 1) :
                                   argv[j] = "--select" /\ IsNumberStr(argv[j + 1])}}

(* C25: in a download, --select with an index chooses the file of that    *)
(* index, --select without an index prints the list of files and exits    *)
(* gracefully without playback, and no --select chooses the largest file.  *)
(* Fails: select is declared a string, so argv.select is never a number   *)
(* nor a boolean: the largest file is chosen whatever --select says.      *)
C25_FileSelection ==
  /\ \A n \in 1..Len(effects.selections) :
       /\ ~SelectWithoutIndex
       /\ effects.selections[n] \in
            (IF Given("--select") THEN SelectIndexes ELSE {LargestFile})
  /\ effects.listed => (SelectWithoutIndex /\ lets.gracefullyExiting)

(* C26: with --stdout given or DEBUG set, quiet and its alias q are true  *)
(* from the call of the command's callback on, for the rest of the run,   *)
(* and no draw interval is ever started.                                  *)
C26_StdoutImpliesQuiet ==
  (callback /= "" /\ (Given("--stdout") \/ env.DEBUG)) =>
    /\ Get(result, "quiet") = JsTrue
    /\ Get(result, "q") = JsTrue
    /\ ~lets.drawInterval
    /\ effects.intervals = 0

\* a download to stdout has selected its file, where the dashboard starts
C26_Witness ==
  /\ Given("--stdout")
  /\ callback = "download"
  /\ effects.selections /= <<>>
  /\ effects.intervals = 0

\* the callback main has called gives a list of inputs to processInputs
ProcessesInputs == callback \in {"download", "downloadmeta", "seed"}

\* the list of inputs the callback gives to processInputs
Inputs == (IF callback = "seed" THEN Get(result, "inputs") ELSE Get(result, "torrentIds")).a

\* the handler the callback gives to processInputs
HandlerOf ==
  CASE callback = "seed" -> "runSeed"
    [] callback = "downloadmeta" -> "runDownloadMeta"
    [] OTHER -> "runDownload"

\* an option processInputs refuses for more than one input is set
InvalidArgumentSet == \E arg \in InvalidArguments : Truthy(Get(result, arg))

(* C27: processInputs calls the handler once for each input of the list,  *)
(* in the order of the list, for a list of any length from 1 on; for more *)
(* than one input quiet is enabled as well.                               *)
(* Fails: for more than one input the handler is not called at all.       *)
C27_HandlerOncePerInput ==
  (ProcessesInputs /\ (Len(Inputs) = 1 \/ ~InvalidArgumentSet)) =>
    /\ effects.started = [n \in 1..Len(Inputs) |-> <<HandlerOf, Inputs[n]>>]
    /\ Len(Inputs) > 1 => Get(result, "quiet") = JsTrue

\* the flags of the options processInputs refuses for more than one input
InvalidFlags ==
  {"--chromecast", "--chromecast=tv", "--omx", "--vlc", "--mpv", "--iina", "--stdout",
   "--select", "-s", "--subtitles", "-t"}

\* one of these flags is in the argument list
InvalidFlagGiven == \E flag \in InvalidFlags : Given(flag)

(* C28: more than one input together with a streaming option, --select or *)
(* --subtitles ends the run with an expected error, code 1, and no call   *)
(* of the handler; with one input these options are accepted.             *)
(* Fails: the test is the truthiness of argv[arg], and a --select or      *)
(* --subtitles given last, without a value, is the empty string.          *)
C28_MultipleInputsRefuseOptions ==
  (ProcessesInputs /\ InvalidFlagGiven) =>
    IF Len(Inputs) > 1
    THEN expectedError /\ exitCode = <<1>> /\ effects.started = <<>>
    ELSE Len(effects.started) = 1

(* C29: when listening on the configured port fails with EADDRINUSE or    *)
(* EACCES the server listens again, and initServer, onReady and           *)
(* onSelection run once for the download: at most one player and one     *)
(* dashboard.                                                             *)
(* Fails: each listen registers initServer for 'listening', and the       *)
(* listener of the failed listen is still there when the second succeeds. *)
C29_BusyPortFallback ==
  /\ effects.initServer <= 1
  /\ Len(effects.selections) <= 1
  /\ effects.vlcCommand + effects.spawned <= 1
  /\ effects.intervals <= 1

(* C30: once gracefulExit has been initiated in a command that started    *)
(* torrent work, the process eventually exits, the callback of            *)
(* client.destroy being called eventually.                                *)
(* Fails: for runSeed's own client gracefulExit returns before            *)
(* client.destroy, and nothing ends the process.                          *)
C30_GracefulExitEnds ==
  (lets.gracefullyExiting /\ TorrentWork) ~> (exitCode /= <<>>)

\* main is over: it has returned, or it has ended the process
AfterMain == RealSchema /\ thrown = NoError /\ pc \in {"dispatched", "exited"}

\* argv.help || argv.version
HelpOrVersion == Truthy(Get(result, "help")) \/ Truthy(Get(result, "version"))

\* the key of commands the first positional names, the default key if none
FirstNamed ==
  IF Residual /= <<>> /\ Residual[1].k = "string"
       /\ Residual[1].s \in DeclaredNames \cup {"*"}
  THEN Residual[1].s ELSE "*"

\* only help or version was printed: no callback, no client
OnlyPrinted ==
  /\ callback = ""
  /\ shown = (IF Truthy(Get(result, "help")) THEN "help" ELSE "version")
  /\ webtorrent = "none"
  /\ ~lets.client
  /\ effects.started = <<>>

\* the callback main has called is the one of the command the first
\* positional names, the command whose template the parser has bound
CalledNamed == callback = FirstNamed /\ callback = local.command

(* C31, as stated: with --help or --version only help or version is       *)
(* printed, no callback runs and no client is created; otherwise the      *)
(* callback of the command the first positional names runs, the default   *)
(* command's if it names none, the command whose template was bound.      *)
C31_OneCallback ==
  AfterMain => IF HelpOrVersion THEN OnlyPrinted ELSE CalledNamed

(* C31, amended: otherwise either main has ended the process before the   *)
(* dispatch, with code 1 and no callback, or the callback of the command  *)
(* the first positional names has run.                                    *)
C31_OneCallbackUnlessExit ==
  AfterMain =>
    IF HelpOrVersion THEN OnlyPrinted
    ELSE \/ CalledNamed
         \/ callback = "" /\ exitCode = <<1>> /\ webtorrent = "none"

\* seed was named after an option, and its callback has started runSeed
C31_Witness ==
  /\ AfterMain
  /\ argv = <<"-q", "seed", "fileA">>
  /\ callback = "seed"
  /\ effects.started = <<<<"runSeed", Str("fileA")>>>>

\* a script named by --on-done or --on-exit does not exist or is not executable
BadScript == env.onDone = "bad" \/ env.onExit = "bad"

\* argv.subtitles is set and no string: path.dirname throws
SubtitlesNoString ==
  Truthy(Get(result, "subtitles")) /\ Get(result, "subtitles").k /= "string"

\* no callback was called, no client created and no script executed
NothingStarted == callback = "" /\ webtorrent = "none" /\ ~lets.client /\ Executed = {}

(* C32, as stated: when --on-done or --on-exit names a script that does   *)
(* not exist or is not executable, the run ends with an expected error,   *)
(* code 1, before any callback: no client, no script executed.            *)
C32_BadScriptExits ==
  (AfterMain /\ BadScript) => (expectedError /\ exitCode = <<1>> /\ NothingStarted)

(* C32, amended: with such a script no callback is called, no client      *)
(* created and no script executed; the run ends with code 1, as an        *)
(* expected error unless argv.subtitles is no string, but for --help and  *)
(* --version, which print and check no script.                            *)
C32_BadScriptStartsNothing ==
  (AfterMain /\ BadScript) =>
    /\ NothingStarted
    /\ IF HelpOrVersion THEN ~expectedError /\ exitCode /= <<1>> /\ shown /= ""
       ELSE /\ exitCode = <<1>>
            /\ expectedError \/ SubtitlesNoString

\* a download whose --on-exit script is not executable has ended in main
C32_Witness ==
  /\ argv = <<"download", "magnet:x", "--on-exit", "script">>
  /\ env.onExit = "bad"
  /\ pc = "exited"
  /\ expectedError
  /\ exitCode = <<1>>
  /\ callback = ""

\* the process has ended and has emitted 'exit'
Exited == exitCode /= <<>> /\ ~effects.killed

(* C33: UNEXPECTED ERROR is printed at the exit of the process exactly    *)
(* when the code is neither 0 nor 130 and expectedError is not set, and   *)
(* never while the process runs: never after errorAndExit, always after   *)
(* fatalError, never after a graceful exit with code 0.                   *)
C33_UnexpectedErrorReport ==
  /\ Exited => (effects.reported <=>
                  (exitCode \notin {<<0>>, <<130>>} /\ ~expectedError))
  /\ ~Exited => ~effects.reported
  /\ (Exited /\ expectedError) => ~effects.reported
  /\ (Exited /\ exitCode = <<1>> /\ ~expectedError) => effects.reported
  /\ (Exited /\ lets.gracefullyExiting /\ exitCode = <<0>>) => ~effects.reported

\* the callback of client.destroy has given an error to fatalError
C33_Witness ==
  /\ lets.gracefullyExiting
  /\ webtorrent = "destroying"
  /\ exitCode = <<1>>
  /\ ~expectedError
  /\ effects.reported

\* the options declared with a default that is a boolean
BooleanDefaults == {n \in 1..Len(options) : options[n].default.k = "boolean"}

(* C34: an option declared with a boolean default, true or false, is a    *)
(* boolean flag whatever type it declares: it is registered as a boolean  *)
(* and not as a string, its value in a returned result is a boolean, and  *)
(* the default when the flag is not among the arguments.                  *)
(* Fails: a default of false is dropped by the truthiness tests, and the  *)
(* option is registered under the type it declares.                       *)
C34_BooleanDefaultIsBoolean ==
  pc = "returned" =>
    \A n \in BooleanDefaults :
      LET o == options[n]
          built == buildOptions(options)
      IN /\ o.key \in SeqToSet(built.boolean)
         /\ o.key \notin SeqToSet(built.string)
         /\ Get(result, o.key).k = "boolean"
         /\ ~FlagGiven(o) => Get(result, o.key) = o.default

\* the executions of the on-exit script
OnExitRuns == Cardinality({i \in 1..Len(effects.scripts) : effects.scripts[i] = "on-exit"})

(* C35: gracefulExit is idempotent whatever the triggers and their order: *)
(* the exit line is printed, the on-exit script executed and the client   *)
(* destroyed at most once, and a call made once gracefullyExiting is set  *)
(* changes no state.                                                      *)
C35_GracefulExitOnce ==
  /\ effects.exitLines <= 1
  /\ OnExitRuns <= 1
  /\ effects.destroys <= 1
  /\ lets.gracefullyExiting => gracefulExit(State) = State

\* two players were opened and both have exited under --quit, each exit a
\* call of gracefulExit, with an on-exit script to run
C35_Witness ==
  /\ effects.spawned = 2
  /\ effects.players = <<>>
  /\ Truthy(Get(result, "quit"))
  /\ Truthy(Get(result, "on-exit"))
  /\ lets.gracefullyExiting
  /\ OnExitRuns = 1
  /\ effects.destroys = 1
  /\ effects.exitLines = 1

(* C36: in downloadmeta, once the metadata of the torrent has arrived the *)
(* .torrent file is written and gracefulExit is initiated, whether or not *)
(* quiet mode is on.                                                      *)
(* Fails: under quiet the 'infoHash' listener returns before it registers *)
(* the 'metadata' listener, so nothing is written and nothing exits.      *)
C36_MetadataIsSaved ==
  torrent.kind = "downloadmeta" /\ torrent.metadata =>
    /\ "torrent" \in SeqToSet(effects.written)
    /\ lets.gracefullyExiting

\* the key begins with no-, and the key without that prefix
BeginsWithNo(key) == key \in {"no-quit"}
WithoutNo(key) == CASE key = "no-quit" -> "quit" [] OTHER -> key

\* the keys given a default of true that no option declares
ImplicitDefaults ==
  LET default == buildOptions(options).default
      declared == {options[n].key : n \in {m \in 1..Len(options) : options[m].default = JsTrue}}
  IN {default[n][1] : n \in {m \in 1..Len(default) : default[m][2] = JsTrue}} \ declared

(* C37: only an option key that begins with no- induces an implicit       *)
(* default of true, and for exactly the key without that prefix: the keys *)
(* with an implicit default are those of the options that begin with no-, *)
(* and a key that holds no- elsewhere induces none.                       *)
(* Fails: the test is includes('no-') and the removal replace('no-', ''), *)
(* so piano-mode induces a default of true for piamode.                   *)
C37_OnlyLeadingNo ==
  pc = "returned" =>
    /\ ImplicitDefaults =
         {WithoutNo(options[n].key) : n \in {m \in 1..Len(options) : BeginsWithNo(options[m].key)}}
    /\ \A key \in ImplicitDefaults : Get(result, key) /= Undefined

(* C38: a non-variadic token is bound whenever a residual positional      *)
(* exists at its offset, whatever the positional holds: once the loop has *)
(* reached the token, the call does not report it missing, and a result   *)
(* returned holds the positional under the name of the token.             *)
(* Fails: the test is the truthiness of the positional, so '' and 0 at    *)
(* the slot of a required token are reported as a missing argument.       *)
C38_SlotBound ==
  Terminal =>
    \A i \in 1..Len(local.template) :
      LET argument == PieceOf(local.template[i])
          at == i - 1 + local.preset
      IN (argument.matches /\ ~argument.isArray /\ local.index >= i - 1
            /\ at < Len(Residual)) =>
           /\ thrown /= Error("argument is required", argument.name, local.command)
           /\ pc = "returned" => Get(result, argument.name) = Residual[at + 1]

\* the first residual positional is the literal *
StarFirst == Residual /= <<>> /\ Residual[1] = Str("*")

(* C39: the sentinel key * is no command name a user can select: when the *)
(* first residual positional is the token *, the default command is       *)
(* resolved without skipping a name and, in the schema of the program,    *)
(* the whole residual list, the token * included, is bound to torrent-ids.*)
(* Fails: Object.keys(commands) holds *, so the token selects the entry   *)
(* as a named command and is left out of the binding.                     *)
C39_SentinelNotSelectable ==
  (Terminal /\ HasCommand(commands, "*") /\ StarFirst) =>
    /\ local.isDefault
    /\ local.preset = 0
    /\ RealSchema => (pc = "returned" /\ Get(result, "torrent-ids") = Arr(Residual))

\* the parse as one function and the parse step by step end alike
ParseIsStepwise ==
  Terminal => minimistPrettyParse(argv, options, commands)
                = [result |-> result, thrown |-> thrown]

====
